---- MODULE Spec2Model ----
(***************************************************************************)
(* Model of the two alert-triage scripts:                                  *)
(*   threat_detector.py            ("basic" variant, rules 1-4 + catch-all) *)
(*   optimized_threat-detector.py  ("optimized" variant, which adds the     *)
(*                                  login-interval anomaly score, rule 5)   *)
(* Each script reads a CSV file row by row, converts volume_MB with int(),  *)
(* calls triage_alert(row) and prints one line.  An exception that leaves   *)
(* the loop body is caught nowhere, so it ends the run.                     *)
(*                                                                         *)
(* Representation choices                                                  *)
(*  - A CSV cell holding the volume is a sequence of characters.           *)
(*  - A timestamp cell is a record [fmt, t, off]: fmt says which of the    *)
(*    two strptime formats the text matches ("clf" for                     *)
(*    "%d/%b/%Y:%H:%M:%S %z", "iso" for "%Y-%m-%dT%H:%M:%SZ", "bad" for    *)
(*    neither), t is the wall-clock reading in seconds and off the UTC     *)
(*    offset written in the text (clf only).                               *)
(*  - A datetime is [aware, secs]: format "clf" carries %z and gives an    *)
(*    offset-aware datetime (secs is its UTC instant); format "iso"        *)
(*    matches the letter Z literally and gives a naive datetime.           *)
(*  - A score is 0 (kind "zero"), NaN (kind "nan") or the number           *)
(*    dev * sqrt(n / ss) (kind "num"), kept as the integers dev, ss, n so  *)
(*    that the comparison with 2.5 is exact.                               *)
(*  - The labels of the optimized script are written with an en dash in    *)
(*    the source, rendered here as " - "; the basic script writes an em    *)
(*    dash, rendered here as " -- ".                                       *)
(*  - stdout is observed through the number of lines printed.              *)
(*  - exc is the exception that ended the run, "none" while there is none. *)
(***************************************************************************)
EXTENDS Integers, Sequences, FiniteSets, TLC

VARIABLES variant, pc, exc, row, result, login_times, score, nread, printed

vars == <<variant, pc, exc, row, result, login_times, score, nread, printed>>

(***************************************************************************)
(* Bounds of the model                                                     *)
(***************************************************************************)
MaxRecords == 4
MaxTimingRecords == 9
MaxTime == 1
MaxOffset == 1

(***************************************************************************)
(* Program constants                                                       *)
(***************************************************************************)
VolumeThreshold == 5000
MinHistory == 2
ScoreLimitNum == 5
ScoreLimitDen == 2

trusted_users == {"jdoe", "sysadmin", "trusteduser123"}

UnitedStates == "United States"

\* the exceptions that leave the loop body (Python's messages)
IntError == "ValueError: invalid literal for int() with base 10"
TimeFormatError == "ValueError: time data does not match format"
MixedTzError == "TypeError: can't subtract offset-naive and offset-aware datetimes"

Escalate == "escalate to security engineer"
DomesticHigh == "alert - high volume, domestic malicious activity"
MaliciousLow == "alert - malicious low-volume or known threat"
SuspiciousLow == "alert - suspicious low-volume from untrusted internal user"
TimingAnomaly == "alert - suspicious login timing anomaly"
LogForReview == "log for review"

BasicDomesticHigh == "alert -- high volume, domestic malicious activity"
BasicMaliciousLow == "alert -- malicious low-volume or known threat"
BasicSuspiciousLow == "alert -- suspicious low-volume from untrusted internal user"

(***************************************************************************)
(* int(row["volume_MB"])                                                   *)
(***************************************************************************)
Digits == {"0", "1", "2", "3", "4", "5", "6", "7", "8", "9"}

DigitValue(c) ==
    CASE c = "0" -> 0 [] c = "1" -> 1 [] c = "2" -> 2 [] c = "3" -> 3
      [] c = "4" -> 4 [] c = "5" -> 5 [] c = "6" -> 6 [] c = "7" -> 7
      [] c = "8" -> 8 [] c = "9" -> 9

\* int() accepts the text (no sign, blank or underscore in the modelled cells)
IsIntText(s) == Len(s) > 0 /\ \A i \in 1..Len(s) : s[i] \in Digits

RECURSIVE IntOf(_)
IntOf(s) ==
    IF Len(s) = 0 THEN 0
    ELSE 10 * IntOf(SubSeq(s, 1, Len(s) - 1)) + DigitValue(s[Len(s)])

(***************************************************************************)
(* datetime.strptime with the two formats                                  *)
(***************************************************************************)
NoTime == [ok |-> FALSE, aware |-> FALSE, secs |-> 0]

ParseTimestamp(ts) ==
    IF ts.fmt = "clf"
    THEN [ok |-> TRUE, aware |-> TRUE, secs |-> ts.t - ts.off]
    ELSE IF ts.fmt = "iso"
         THEN [ok |-> TRUE, aware |-> FALSE, secs |-> ts.t]
         ELSE NoTime

DateTime(p) == [aware |-> p.aware, secs |-> p.secs]

(***************************************************************************)
(* The interval score                                                      *)
(***************************************************************************)
RECURSIVE SumTo(_, _)
SumTo(s, k) == IF k = 0 THEN 0 ELSE s[k] + SumTo(s, k - 1)

SeqSum(s) == SumTo(s, Len(s))

Abs(x) == IF x < 0 THEN -x ELSE x

ZeroScore == [kind |-> "zero", dev |-> 0, ss |-> 0, n |-> 0]

NaNScore(n) == [kind |-> "nan", dev |-> 0, ss |-> 0, n |-> n]

\* datetime subtraction raises TypeError for an aware and a naive operand
Subtractable(lt) == \A i \in 1..(Len(lt) - 1) : lt[i + 1].aware = lt[i].aware

\* variant of Recorded: the new timestamp goes in front
Recorded_Prepend(lt, login_time) == <<login_time>> \o lt

\* login_times.append(login_time)
Recorded(lt, login_time) == Append(lt, login_time)

\* variant of EnoughHistory: two timestamps are taken to be enough
EnoughHistory_Two(lt) == Len(lt) > MinHistory - 1

\* len(login_times) > 2
EnoughHistory(lt) == Len(lt) > MinHistory

\* the seconds between consecutive timestamps, in arrival order
Intervals(lt) == [i \in 1..(Len(lt) - 1) |-> lt[i + 1].secs - lt[i].secs]

\* n * (a[i] - mean(a)) for every i, integers (n = Len(a))
Deviations(a) == LET total == SeqSum(a) IN [i \in 1..Len(a) |-> Len(a) * a[i] - total]

\* n^3 * (population variance of a), from the deviations d of a
SumSquares(d) == SeqSum([i \in 1..Len(d) |-> d[i] * d[i]])

\* variant of LastZ: np.abs left out
LastZ_Signed(a) ==
    LET d == Deviations(a)
        ss == SumSquares(d)
    IN  IF ss = 0
        THEN NaNScore(Len(a))
        ELSE [kind |-> "num", dev |-> d[Len(a)], ss |-> ss, n |-> Len(a)]

\* np.abs(stats.zscore(a))[-1]
LastZ(a) ==
    LET d == Deviations(a)
        ss == SumSquares(d)
    IN  IF ss = 0
        THEN NaNScore(Len(a))
        ELSE [kind |-> "num", dev |-> Abs(d[Len(a)]), ss |-> ss, n |-> Len(a)]

\* variant of ScoreExceeds: a NaN score counts as exceeding
ScoreExceeds_NaNTrue(s) ==
    \/ s.kind = "nan"
    \/ /\ s.kind = "num"
       /\ s.dev > 0
       /\ ScoreLimitDen * ScoreLimitDen * s.n * s.dev * s.dev > ScoreLimitNum * ScoreLimitNum * s.ss

\* variant of ScoreExceeds: the limit is 2 instead of 2.5
ScoreExceeds_Two(s) ==
    /\ s.kind = "num"
    /\ s.dev > 0
    /\ s.n * s.dev * s.dev > 4 * s.ss

\* login_interval_score > 2.5 ; every comparison with NaN is false
ScoreExceeds(s) ==
    /\ s.kind = "num"
    /\ s.dev > 0
    /\ ScoreLimitDen * ScoreLimitDen * s.n * s.dev * s.dev > ScoreLimitNum * ScoreLimitNum * s.ss

(***************************************************************************)
(* The rules                                                               *)
(***************************************************************************)
Rule1(e) ==
    /\ e.volume_MB > VolumeThreshold
    /\ e.geo_location # UnitedStates
    /\ e.known_malicious = "True"

Rule2(e) ==
    /\ e.volume_MB > VolumeThreshold
    /\ e.geo_location = UnitedStates
    /\ e.known_malicious = "True"

\* variant of Rule3: the trusted-user test left out
Rule3_NoTrust(e) ==
    \/ (e.volume_MB < VolumeThreshold /\ e.geo_location # UnitedStates)
    \/ e.known_malicious = "True"

Rule3(e) ==
    /\ \/ (e.volume_MB < VolumeThreshold /\ e.geo_location # UnitedStates)
       \/ e.known_malicious = "True"
    /\ e.username \notin trusted_users

\* variant of Rule4: <= in place of <
Rule4_Inclusive(e) ==
    /\ e.volume_MB <= VolumeThreshold
    /\ e.geo_location = UnitedStates
    /\ e.username \notin trusted_users

Rule4(e) ==
    /\ e.volume_MB < VolumeThreshold
    /\ e.geo_location = UnitedStates
    /\ e.username \notin trusted_users

\* variant of Rule5: the trusted-user test left out
Rule5_NoTrust(e, s) == ScoreExceeds(s)

Rule5(e, s) == ScoreExceeds(s) /\ e.username \notin trusted_users

\* the if / elif chain of optimized_threat-detector.py
Classify(e, s) ==
    IF Rule1(e) THEN Escalate
    ELSE IF Rule2(e) THEN DomesticHigh
    ELSE IF Rule3(e) THEN MaliciousLow
    ELSE IF Rule4(e) THEN SuspiciousLow
    ELSE IF Rule5(e, s) THEN TimingAnomaly
    ELSE LogForReview

\* the if / elif chain of threat_detector.py
BasicClassify(e) ==
    IF Rule1(e) THEN Escalate
    ELSE IF Rule2(e) THEN BasicDomesticHigh
    ELSE IF Rule3(e) THEN BasicMaliciousLow
    ELSE IF Rule4(e) THEN BasicSuspiciousLow
    ELSE LogForReview

(***************************************************************************)
(* triage_alert of optimized_threat-detector.py: what the call raises, the *)
(* history and the score it leaves, and the label it returns.              *)
(***************************************************************************)
triage_alert(log_entry, lt, old_score) ==
    LET p == ParseTimestamp(log_entry.timestamp)
        times == Recorded(lt, DateTime(p))
    IN  IF ~p.ok
        THEN [raised |-> TimeFormatError, times |-> lt, score |-> old_score, label |-> ""]
        ELSE IF EnoughHistory(times) /\ ~Subtractable(times)
        THEN [raised |-> MixedTzError, times |-> times, score |-> ZeroScore, label |-> ""]
        ELSE LET s == IF EnoughHistory(times) THEN LastZ(Intervals(times)) ELSE ZeroScore
             IN  [raised |-> "none", times |-> times, score |-> s,
                  label |-> Classify(log_entry, s)]

\* triage_alert of threat_detector.py
basic_triage_alert(log_entry) == BasicClassify(log_entry)

(***************************************************************************)
(* The rows a csv.DictReader can hand to the loop                          *)
(***************************************************************************)
Users == {"jdoe", "bob"}

Geos == {UnitedStates, "Canada"}

Flags == {"True", "False"}

GoodVolumes == {<<"1", "0", "0">>, <<"5", "0", "0", "0">>, <<"6", "0", "0", "0">>}

BadVolumes == {<<"5", "0", "0", "0", ".", "0">>}

\* the clock readings and UTC offsets of the modelled cells: the two extremes
Readings == {0, MaxTime}

Offsets == {0, MaxOffset}

ClfStamps == {[fmt |-> "clf", t |-> t, off |-> o] : t \in Readings, o \in Offsets}

IsoStamps == {[fmt |-> "iso", t |-> t, off |-> 0] : t \in Readings}

BadStamps == {[fmt |-> "bad", t |-> 0, off |-> 0]}

Rows ==
    [username : Users, geo_location : Geos, known_malicious : Flags,
     volume_MB : GoodVolumes \cup BadVolumes,
     timestamp : ClfStamps \cup IsoStamps \cup BadStamps]

TimingRows ==
    [username : Users, geo_location : Geos, known_malicious : Flags,
     volume_MB : GoodVolumes, timestamp : IsoStamps]

NoRow ==
    [username |-> "", geo_location |-> "", known_malicious |-> "",
     volume_MB |-> 0, timestamp |-> [fmt |-> "bad", t |-> 0, off |-> 0]]

(***************************************************************************)
(* The program                                                             *)
(***************************************************************************)
Init ==
    /\ variant \in {"basic", "optimized"}
    /\ pc = "loop"
    /\ exc = "none"
    /\ row = NoRow
    /\ result = ""
    /\ login_times = <<>>
    /\ score = ZeroScore
    /\ nread = 0
    /\ printed = 0

\* one iteration of "for row in reader": int(), triage_alert, print
LoopBody(raw) ==
    /\ pc = "loop"
    /\ nread' = nread + 1
    /\ variant' = variant
    /\ IF ~IsIntText(raw.volume_MB)
       THEN /\ row' = raw
            /\ exc' = IntError
            /\ pc' = "crashed"
            /\ UNCHANGED <<result, login_times, score, printed>>
       ELSE LET entry == [raw EXCEPT !.volume_MB = IntOf(raw.volume_MB)]
            IN  /\ row' = entry
                /\ IF variant = "basic"
                   THEN /\ result' = basic_triage_alert(entry)
                        /\ printed' = printed + 1
                        /\ UNCHANGED <<pc, exc, login_times, score>>
                   ELSE LET call == triage_alert(entry, login_times, score)
                        IN  /\ login_times' = call.times
                            /\ score' = call.score
                            /\ exc' = call.raised
                            /\ IF call.raised = "none"
                               THEN /\ result' = call.label
                                    /\ printed' = printed + 1
                                    /\ pc' = pc
                               ELSE /\ pc' = "crashed"
                                    /\ UNCHANGED <<result, printed>>

\* the reader is exhausted
EndOfFile ==
    /\ pc = "loop"
    /\ pc' = "done"
    /\ UNCHANGED <<variant, exc, row, result, login_times, score, nread, printed>>

ReadRow == nread < MaxRecords /\ \E raw \in Rows : LoopBody(raw)

ReadTimingRow == nread < MaxTimingRecords /\ \E raw \in TimingRows : LoopBody(raw)

Next == ReadRow \/ EndOfFile

TimingNext == ReadTimingRow \/ EndOfFile

Spec == Init /\ [][Next]_vars

TimingSpec == Init /\ [][TimingNext]_vars

(***************************************************************************)
(* Helpers of the properties                                               *)
(***************************************************************************)
\* the last row read was labelled: result is the label of row
Labelled == nread > 0 /\ exc = "none"

\* the last row read got past int(): row.volume_MB is a number
Converted == nread > 0 /\ exc # IntError

Trusted == row.username \in {"jdoe", "sysadmin", "trusteduser123"}

\* the last interval of the history, times n, minus the sum of all intervals
\* (which telescopes to last timestamp - first timestamp)
LastSignedDeviation ==
    LET k == Len(login_times)
    IN  (k - 1) * (login_times[k].secs - login_times[k - 1].secs)
          - (login_times[k].secs - login_times[1].secs)

\* sum of the squared intervals of the history
SquaredIntervals ==
    LET k == Len(login_times)
    IN  SeqSum([i \in 1..(k - 1) |->
                  (login_times[i + 1].secs - login_times[i].secs)
                    * (login_times[i + 1].secs - login_times[i].secs)])

\* more than 2.5 standard deviations from the mean: 4 n dev^2 > 25 ss
FarFromMean == 4 * score.n * score.dev * score.dev > 25 * score.ss

(***************************************************************************)
(* C1 (as stated): a record with volume_MB > 5000, a geo_location other    *)
(* than "United States", known_malicious = "True" and a timestamp in one   *)
(* of the two formats is labelled "escalate to security engineer",         *)
(* whatever the username and the timestamp history.  The optimized script  *)
(* breaks it: when the history mixes the two formats the call raises       *)
(* TypeError before rule 1 is looked at.                                   *)
(***************************************************************************)
C1_EscalateAlways ==
    (/\ Converted
     /\ row.timestamp.fmt # "bad"
     /\ row.volume_MB > 5000
     /\ row.geo_location # "United States"
     /\ row.known_malicious = "True")
    => (exc = "none" /\ result = "escalate to security engineer")

(***************************************************************************)
(* C2: a record of a trusted user never gets the label of rule 3 or of     *)
(* rule 4, in either script, after any earlier records.                    *)
(***************************************************************************)
C2_TrustedNeverRule3Or4 ==
    (Labelled /\ Trusted)
    => result \notin {MaliciousLow, SuspiciousLow, BasicMaliciousLow, BasicSuspiciousLow}

\* a trusted user's low-volume foreign malicious record, after an earlier record
C2_Witness ==
    /\ Labelled /\ Trusted /\ nread >= 2
    /\ row.volume_MB < 5000
    /\ row.geo_location # "United States"
    /\ row.known_malicious = "True"
    /\ result = LogForReview

(***************************************************************************)
(* C3: while fewer than 3 records have been read (the current one          *)
(* counted), the anomaly score is 0 and the timing label is not returned.  *)
(***************************************************************************)
C3_NoScoreBeforeThree ==
    (variant = "optimized" /\ nread < 3)
    => (score = [kind |-> "zero", dev |-> 0, ss |-> 0, n |-> 0] /\ result # TimingAnomaly)

\* the second record, of an untrusted user, which no volume rule catches
C3_Witness ==
    /\ variant = "optimized" /\ Labelled /\ nread = 2 /\ Len(login_times) = 2
    /\ ~Trusted /\ row.volume_MB = 5000 /\ row.known_malicious = "False"
    /\ result = LogForReview

(***************************************************************************)
(* C4 (as stated): after a malformed record (a volume that is no integer,  *)
(* a timestamp in neither format) the batch goes on: the loop is still     *)
(* reading rows.  Both scripts break it: the exception ends the run.       *)
(***************************************************************************)
C4_BatchContinues == (exc \in {IntError, TimeFormatError}) => pc = "loop"

(***************************************************************************)
(* C5: with at least 3 timestamps whose consecutive intervals are all      *)
(* equal, the call does not fail; the score is NaN, no comparison with it  *)
(* holds, and the label is the one the record's fields alone select.       *)
(***************************************************************************)
C5_ZeroVarianceFallback ==
    (/\ variant = "optimized"
     /\ exc \notin {IntError, TimeFormatError}
     /\ Len(login_times) >= 3
     /\ \A i \in 1..(Len(login_times) - 1) : login_times[i + 1].aware = login_times[i].aware
     /\ \A i \in 2..(Len(login_times) - 1) :
           login_times[i + 1].secs - login_times[i].secs
             = login_times[i].secs - login_times[i - 1].secs)
    => (/\ exc = "none"
        /\ pc # "crashed"
        /\ score.kind = "nan"
        /\ result \in {Escalate, DomesticHigh, MaliciousLow, SuspiciousLow, LogForReview}
        /\ result = Classify(row, [kind |-> "zero", dev |-> 0, ss |-> 0, n |-> 0]))

\* three timestamps one second apart (equal non-zero intervals), a record that
\* only rule 5 or the catch-all can label
C5_Witness ==
    /\ variant = "optimized" /\ Labelled /\ Len(login_times) = 3
    /\ login_times[2].secs - login_times[1].secs = 1
    /\ login_times[3].secs - login_times[2].secs = 1
    /\ score.kind = "nan"
    /\ ~Trusted /\ row.volume_MB = 5000 /\ row.known_malicious = "False"
    /\ result = LogForReview

(***************************************************************************)
(* C6 (as stated): a record with volume_MB exactly 5000 is labelled only   *)
(* by rule 5 or by the catch-all, whatever its other fields.               *)
(***************************************************************************)
C6_Original ==
    (Labelled /\ row.volume_MB = 5000) => result \in {TimingAnomaly, LogForReview}

(***************************************************************************)
(* C6 (amended): a record with volume_MB exactly 5000 matches none of      *)
(* rules 1, 2 and 4; it matches rule 3 exactly when known_malicious is     *)
(* "True" and the user is not trusted, and is otherwise labelled by rule 5 *)
(* (optimized script only) or by the catch-all.                            *)
(***************************************************************************)
C6_Amended ==
    (Labelled /\ row.volume_MB = 5000)
    => IF row.known_malicious = "True" /\ ~Trusted
       THEN result = (IF variant = "basic" THEN BasicMaliciousLow ELSE MaliciousLow)
       ELSE /\ result \in {TimingAnomaly, LogForReview}
            /\ variant = "basic" => result = LogForReview

\* volume 5000, malicious, untrusted: rule 3
C6_Witness ==
    /\ Labelled /\ row.volume_MB = 5000 /\ row.known_malicious = "True" /\ ~Trusted
    /\ row.geo_location = "United States"
    /\ result = MaliciousLow

(***************************************************************************)
(* C7 (as stated): with more than 2 timestamps the score is the signed     *)
(* population z-score of the last interval, and rule 5 fires only when the *)
(* last interval is above the mean.                                        *)
(***************************************************************************)
C7_Original ==
    (variant = "optimized" /\ Labelled /\ Len(login_times) > 2 /\ score.kind = "num")
    => (/\ score.dev = LastSignedDeviation
        /\ result = TimingAnomaly => LastSignedDeviation > 0)

(***************************************************************************)
(* C7 (amended): with more than 2 timestamps and intervals that are not    *)
(* all equal, the score is the absolute value of the population z-score of *)
(* the last interval over all consecutive intervals in arrival order: with *)
(* n intervals of sum S and sum of squares Q, n (last - mean) = n last - S *)
(* and n^3 variance = n (n Q - S^2).  Rule 5 fires only when the last      *)
(* interval is more than 2.5 standard deviations from the mean, above or   *)
(* below it.                                                               *)
(***************************************************************************)
C7_Amended ==
    (variant = "optimized" /\ Labelled /\ Len(login_times) > 2 /\ score.kind = "num")
    => (/\ score.n = Len(login_times) - 1
        /\ score.dev = (IF LastSignedDeviation < 0 THEN -LastSignedDeviation
                        ELSE LastSignedDeviation)
        /\ score.ss = score.n * (score.n * SquaredIntervals
                                   - (login_times[Len(login_times)].secs - login_times[1].secs)
                                     * (login_times[Len(login_times)].secs - login_times[1].secs))
        /\ score.ss > 0
        /\ result = TimingAnomaly => FarFromMean)

\* rule 5 fires on a last interval that is below the mean
C7_Witness ==
    /\ variant = "optimized" /\ Labelled /\ Len(login_times) > 2 /\ score.kind = "num"
    /\ result = TimingAnomaly
    /\ LastSignedDeviation < 0

(***************************************************************************)
(* C8: the history holds one timestamp per record processed so far, in     *)
(* arrival order.  A call that returns a label appends the record's parsed *)
(* timestamp at the end, whichever rule matched and whoever the user is;   *)
(* no call removes, reorders or changes an earlier entry; a call that      *)
(* fails on an unparseable timestamp (or a row that fails in int())        *)
(* leaves the history as it was.                                           *)
(***************************************************************************)
C8_HistoryAppendOnly ==
    /\ [](variant = "optimized" /\ exc = "none"
            => Len(login_times) = nread /\ printed = nread)
    /\ [][variant = "optimized" =>
            /\ Len(login_times') >= Len(login_times)
            /\ Len(login_times') <= Len(login_times) + 1
            /\ SubSeq(login_times', 1, Len(login_times)) = login_times
            /\ (exc' = "none" /\ nread' = nread + 1) =>
                  login_times' = login_times \o
                     << [aware |-> (row'.timestamp.fmt = "clf"),
                         secs |-> IF row'.timestamp.fmt = "clf"
                                  THEN row'.timestamp.t - row'.timestamp.off
                                  ELSE row'.timestamp.t] >>
            /\ exc' \in {IntError, TimeFormatError} => login_times' = login_times]_vars

\* a third call that fails on its timestamp after two calls that appended
\* different timestamps, the first for a trusted user
C8_Witness ==
    /\ variant = "optimized" /\ nread = 3 /\ exc = TimeFormatError
    /\ Len(login_times) = 2
    /\ login_times[1].secs # login_times[2].secs

(***************************************************************************)
(* C9: none of the first 8 records gets the timing label (with at most 7   *)
(* intervals no absolute z-score exceeds sqrt(6) < 2.5); the 9th can.      *)
(***************************************************************************)
C9_NoTimingLabelInFirstEight ==
    (variant = "optimized" /\ nread <= 8) => result # TimingAnomaly

\* the 9th record gets the timing label
C9_Witness ==
    /\ variant = "optimized" /\ Labelled /\ nread = 9 /\ Len(login_times) = 9
    /\ result = TimingAnomaly

(***************************************************************************)
(* C10: the timing label is returned only for a record of an untrusted     *)
(* user whose known_malicious is not "True" and whose volume_MB is at      *)
(* least 5000.                                                             *)
(***************************************************************************)
C10_TimingLabelOnlyAfterRules ==
    (Labelled /\ result = TimingAnomaly)
    => (/\ ~Trusted
        /\ row.known_malicious # "True"
        /\ row.volume_MB >= 5000)

\* the timing label on a high-volume record that is not flagged malicious
C10_Witness ==
    /\ Labelled /\ result = TimingAnomaly
    /\ row.volume_MB > 5000 /\ row.geo_location # "United States"
    /\ ~Trusted /\ row.known_malicious = "False"

====
